---- MODULE Spec2Model ----
(***************************************************************************)
(* Vector index management and hybrid retrieval of the RAG engine:         *)
(* FAISSIndexer (src/ai/rag/faiss_indexer.py) and the retrieval part of    *)
(* FAISSQueryEngine (src/ai/rag/faiss_query.py).                            *)
(*                                                                         *)
(* Texts are sequences of one-character strings.  Scores are integers in   *)
(* units of 1/ScoreScale.  Vectors are pairs of integers in units of 1/5   *)
(* (a vector of Euclidean length 5 is a unit vector).                      *)
(***************************************************************************)
EXTENDS Integers, Sequences, FiniteSets, TLC

VARIABLES
    index,           \* self.index: [exists, rows]; exists = FALSE is None
    document_store,  \* self.document_store: insertion-ordered sequence of [key, meta]
    disk_index,      \* the file faiss.index: [state, rows]
    disk_store,      \* the file document_store.pkl: [state, entries]
    tasks,           \* in-flight add_documents coroutines (concurrent specifications)
    lifecycle,       \* _global_indexer is not None, and its _initialized flag
    io_faults,       \* how many snapshot reads and writes have failed so far
    deleted,         \* history: ids deleted in this process and not added since
    last             \* history: the last completed operation, its inputs and outcome

vars == <<index, document_store, disk_index, disk_store, tasks, lifecycle, io_faults,
          deleted, last>>

\* ------------------------------------------------------------------ bounds

\* Rows the Vector Index may hold before add_documents is no longer offered.
MaxVectors == 3
\* Snapshot reads and writes that may fail in one run.
MaxFaults == 2
\* Documents in one add_documents batch.
MaxBatch == 2
\* Largest result cap k offered to search.
MaxK == 2
\* Concurrent add_documents callers of the concurrent specification.
MaxTasks == 2
\* _chunk_text's chunk_size and overlap, scaled down from the defaults 512 and 50
\* (faiss_indexer.py:299) so that short texts are split.
chunk_size == 4
overlap == 1

\* Units in which scores are counted: 1.0 is ScoreScale.
ScoreScale == 150

\* Python's None, as stored in a field or returned by dict.get.
None == "None"

\* ------------------------------------------------------------------ text

Min(a, b) == IF a <= b THEN a ELSE b
Max(a, b) == IF a >= b THEN a ELSE b

\* text[a:b] for 0 <= a.
Slice(text, a, b) ==
    IF a >= Min(b, Len(text)) THEN <<>> ELSE SubSeq(text, a + 1, Min(b, Len(text)))

IsSpace(c) == c = " "

\* str.rfind(ch): the highest 0-based position of ch, or -1.
RFind(text, ch) ==
    LET hits == {i \in 1..Len(text) : text[i] = ch}
    IN  IF hits = {} THEN -1 ELSE (CHOOSE i \in hits : \A j \in hits : j <= i) - 1

\* str.strip()
Strip(text) ==
    LET solid == {i \in 1..Len(text) : ~IsSpace(text[i])}
    IN  IF solid = {} THEN <<>>
        ELSE SubSeq(text, CHOOSE i \in solid : \A j \in solid : i <= j,
                          CHOOSE i \in solid : \A j \in solid : j <= i)

\* The while loop of _chunk_text, from `start` with the chunks collected so far.
RECURSIVE ChunkLoop(_, _, _, _, _)
ChunkLoop(text, size, ovl, start, chunks) ==
    IF ~(start < Len(text)) THEN chunks
    ELSE
        LET end0 == start + size
            window == Slice(text, start, end0)
            last_sentence_end ==
                Max(RFind(window, "."), Max(RFind(window, "!"), RFind(window, "?")))
            end == IF end0 < Len(text) /\ 2 * last_sentence_end > size
                   THEN start + last_sentence_end + 1
                   ELSE end0
            chunk == Strip(Slice(text, start, end))
            chunks1 == IF chunk # <<>> THEN Append(chunks, chunk) ELSE chunks
            start1 == end - ovl
        IN  IF start1 >= Len(text) THEN chunks1
            ELSE ChunkLoop(text, size, ovl, start1, chunks1)

\* FAISSIndexer._chunk_text
_chunk_text(text, size, ovl) ==
    IF Len(text) <= size THEN <<text>> ELSE ChunkLoop(text, size, ovl, 0, <<>>)

\* ------------------------------------------------------------- embeddings

HasLetter(text, letters) == \E i \in 1..Len(text) : text[i] \in letters

\* The embedding model (SentenceTransformer.encode, an external provider) as a fixed
\* function of the text: the direction follows the letters of the text, and a text
\* longer than two characters gets a vector of twice the unit length.
Embed(text) ==
    LET x == HasLetter(text, {"a", "A"})
        y == HasLetter(text, {"b", "c"})
        dir == IF x /\ ~y THEN <<5, 0>>
               ELSE IF y /\ ~x THEN <<0, 5>>
               ELSE IF x /\ y THEN <<3, 4>>
               ELSE <<4, 3>>
        m == IF Len(text) > 2 THEN 2 ELSE 1
    IN  <<m * dir[1], m * dir[2]>>

\* ------------------------------------------------------------- documents

Get(d, key, default) == IF key \in DOMAIN d THEN d[key] ELSE default

NoMetadata == [key \in {} |-> None]

DocShort == [document_id |-> "D1", content |-> <<"a", " ", "b">>, title |-> "T1",
             metadata |-> [project_id |-> "P1"], document_type |-> "contract",
             timestamp |-> 1]
DocLong  == [document_id |-> "D2", content |-> <<"a", "b", ".", " ", "c">>, title |-> "T2",
             metadata |-> [project_id |-> "P2"], timestamp |-> 2]
DocNoId  == [content |-> <<"c">>, title |-> "T3"]
DocEmpty == [document_id |-> "D1", content |-> <<>>, title |-> "T1",
             metadata |-> NoMetadata]

Docs == {DocShort, DocLong, DocNoId, DocEmpty}
DocIds == {"D1", "D2"}

RECURSIVE SeqsUpTo(_, _)
SeqsUpTo(S, n) ==
    IF n = 0 THEN {<<>>}
    ELSE LET shorter == SeqsUpTo(S, n - 1)
         IN  shorter \cup {Append(s, x) : s \in shorter, x \in S}

Batches == SeqsUpTo(Docs, MaxBatch)

\* ------------------------------------------------------------ chunk store

StoreKeys(store) == {store[i].key : i \in 1..Len(store)}
StoreHas(store, key) == key \in StoreKeys(store)
\* where the entry of an existing key sits in the insertion order
StorePos(store, key) == CHOOSE i \in 1..Len(store) : store[i].key = key
\* dict[key] of an existing key
StoreMeta(store, key) == store[StorePos(store, key)].meta

\* dict[key] = meta: in place when the key exists, else appended (insertion order)
StoreSet(store, key, meta) ==
    IF StoreHas(store, key)
    THEN [store EXCEPT ![StorePos(store, key)] = [key |-> key, meta |-> meta]]
    ELSE Append(store, [key |-> key, meta |-> meta])

\* (mutant) the entry is left in place
StoreDel_Keep(store, key) == store

\* del dict[key]
StoreDel(store, key) ==
    LET keep == {i \in 1..Len(store) : store[i].key # key}
        F[i \in 0..Len(store)] ==
            IF i = 0 THEN <<>>
            ELSE IF i \in keep THEN Append(F[i - 1], store[i]) ELSE F[i - 1]
    IN  F[Len(store)]

\* ----------------------------------------------------------- add_documents

\* `not document_id or not content` (faiss_indexer.py:119)
DocValid(doc) ==
    /\ Get(doc, "document_id", None) \notin {None, ""}
    /\ Get(doc, "content", <<>>) # <<>>

\* f"{document_id}_chunk_{i}" if len(chunks) > 1 else document_id
ChunkId(document_id, i, n) ==
    IF n > 1 THEN document_id \o "_chunk_" \o ToString(i) ELSE document_id

\* chunk_metadata of chunk i (0-based) of doc; an absent timestamp is 0
ChunkMetadata(doc, chunks, i) ==
    [document_id   |-> doc.document_id,
     chunk_id      |-> ChunkId(doc.document_id, i, Len(chunks)),
     chunk_index   |-> i,
     content       |-> chunks[i + 1],
     title         |-> Get(doc, "title", ""),
     metadata      |-> Get(doc, "metadata", NoMetadata),
     document_type |-> Get(doc, "document_type", None),
     timestamp     |-> Get(doc, "timestamp", 0)]

\* The chunk metadata of one document, in chunk order; none for a skipped document.
DocChunks(doc) ==
    IF ~DocValid(doc) THEN <<>>
    ELSE LET chunks == _chunk_text(doc.content, chunk_size, overlap)
         IN  [i \in 1..Len(chunks) |-> ChunkMetadata(doc, chunks, i - 1)]

\* The loop over the batch (faiss_indexer.py:115-141): document_metadata, whose
\* content fields are texts_to_embed.
RECURSIVE PrepareChunks(_)
PrepareChunks(documents) ==
    IF documents = <<>> THEN <<>>
    ELSE DocChunks(Head(documents)) \o PrepareChunks(Tail(documents))

\* document_metadata of every batch offered to add_documents
Prepared == [documents \in Batches |-> PrepareChunks(documents)]

NoIndex == [exists |-> FALSE, rows |-> <<>>]

\* self.index once `if self.index is None: self.index = faiss.IndexFlatIP(...)` has run
EnsureIndex(idx) == [exists |-> TRUE, rows |-> idx.rows]

\* self.index.ntotal
ntotal(idx) == Len(idx.rows)

\* self.index.add(embeddings): one row per chunk, in the order of texts_to_embed.
\* `of` is history: the chunk whose embedding the row holds.
IndexAdd(idx, metas) ==
    [exists |-> TRUE,
     rows |-> idx.rows \o [i \in 1..Len(metas) |->
                              [vec |-> Embed(metas[i].content), of |-> metas[i]]]]

\* for i, metadata in enumerate(document_metadata):
\*     self.document_store[start_index + i] = metadata
RECURSIVE RegisterFrom(_, _, _, _)
RegisterFrom(store, start_index, metas, i) ==
    IF i >= Len(metas) THEN store
    ELSE RegisterFrom(StoreSet(store, start_index + i, metas[i + 1]),
                      start_index, metas, i + 1)

\* (mutant) index_id = i: the offset of the batch is forgotten
RegisterChunks_NoOffset(store, start_index, metas) == RegisterFrom(store, 0, metas, 0)

RegisterChunks(store, start_index, metas) == RegisterFrom(store, start_index, metas, 0)

\* ------------------------------------------------------------- persistence

MissingFile == [state |-> "missing", data |-> <<>>]

\* What a file holds after a write of `data` over `file`: the new data, or, when the
\* write raised, what it held before.  (A file left unreadable by a failed write is
\* covered by the read failures of _load_index.)
Written(file, data, outcome) ==
    IF outcome = "ok" THEN [state |-> "ok", data |-> data] ELSE file

WriteOutcomes == {"ok", "fail"}

\* (mutant) the failed write is raised to the caller instead of logged
_save_document_store_Raises(store, ds, store_write) ==
    [disk_store |-> Written(ds, store, store_write), store_write |-> store_write,
     raised |-> store_write = "fail"]

\* FAISSIndexer._save_document_store: the error is logged, nothing is raised
_save_document_store(store, ds, store_write) ==
    [disk_store |-> Written(ds, store, store_write), store_write |-> store_write,
     raised |-> FALSE]

\* FAISSIndexer._save_index: a failed index write skips the store write; whatever
\* is raised inside, its own except clause logs it
_save_index(idx, store, di, ds, index_write, store_write) ==
    IF ~idx.exists
    THEN [disk_index |-> di, disk_store |-> ds,
          index_write |-> "not_called", store_write |-> "not_called", raised |-> FALSE]
    ELSE IF index_write # "ok"
    THEN [disk_index |-> Written(di, idx.rows, index_write), disk_store |-> ds,
          index_write |-> index_write, store_write |-> "not_called", raised |-> FALSE]
    ELSE LET s == _save_document_store(store, ds, store_write)
         IN  [disk_index |-> Written(di, idx.rows, "ok"), disk_store |-> s.disk_store,
              index_write |-> "ok", store_write |-> s.store_write, raised |-> FALSE]

\* (mutant) a failed read of the store snapshot leaves the index that was just read
_load_index_KeepsIndex(di, ds, index_read, store_read) ==
    LET empty == [index |-> NoIndex, document_store |-> <<>>,
                  loaded |-> FALSE, failed |-> FALSE]
    IN  IF di.state = "missing" \/ ds.state = "missing" THEN empty
        ELSE IF index_read = "fail"
        THEN [empty EXCEPT !.failed = TRUE]
        ELSE IF store_read = "fail"
        THEN [empty EXCEPT !.failed = TRUE,
                           !.index = [exists |-> TRUE, rows |-> di.data]]
        ELSE [index |-> [exists |-> TRUE, rows |-> di.data],
              document_store |-> ds.data, loaded |-> TRUE, failed |-> FALSE]

\* FAISSIndexer._load_index: both files or nothing; any failure resets to empty
_load_index(di, ds, index_read, store_read) ==
    LET empty == [index |-> NoIndex, document_store |-> <<>>,
                  loaded |-> FALSE, failed |-> FALSE]
    IN  IF di.state = "missing" \/ ds.state = "missing" THEN empty
        ELSE IF index_read = "fail"
        THEN [empty EXCEPT !.failed = TRUE]
        ELSE IF store_read = "fail"
        THEN [empty EXCEPT !.failed = TRUE]
        ELSE [index |-> [exists |-> TRUE, rows |-> di.data],
              document_store |-> ds.data, loaded |-> TRUE, failed |-> FALSE]

\* ---------------------------------------------------------------- filters

\* FAISSIndexer._match_filters.  A list is the set of its members; confidence and
\* confidence_min are in score units; an absent or falsy timestamp is 0.
FilterKeyOk(document_metadata, filters, filter_key) ==
    LET metadata == Get(document_metadata, "metadata", NoMetadata)
        filter_value == filters[filter_key]
    IN  CASE filter_key = "project_ids" ->
                Get(metadata, "project_id", None) \in filter_value
          [] filter_key = "contractors" ->
                Get(metadata, "contractor", None) \in filter_value
          [] filter_key = "statuses" ->
                Get(metadata, "status", None) \in filter_value
          [] filter_key = "document_types" ->
                Get(document_metadata, "document_type", None) \in filter_value
          [] filter_key = "categories" ->
                Get(metadata, "category", None) \in filter_value
          [] filter_key = "confidence_min" ->
                ~(Get(metadata, "confidence", ScoreScale) < filter_value)
          [] filter_key = "date_range" ->
                LET timestamp == Get(document_metadata, "timestamp", 0)
                IN  timestamp # 0 =>
                       /\ ~("start" \in DOMAIN filter_value /\ timestamp < filter_value.start)
                       /\ ~("end" \in DOMAIN filter_value /\ timestamp > filter_value.end)
          [] OTHER -> TRUE

\* (mutant) one satisfied key is enough
_match_filters_Any(document_metadata, filters) ==
    \E filter_key \in DOMAIN filters : FilterKeyOk(document_metadata, filters, filter_key)

_match_filters(document_metadata, filters) ==
    \A filter_key \in DOMAIN filters : FilterKeyOk(document_metadata, filters, filter_key)

\* filters = None or {}: `if filters and ...` applies no filter
NoFilters == [key \in {} |-> None]

\* (mutant) the filters are never applied
FilteredOut_Never(document_metadata, filters) == FALSE

\* `filters and not self._match_filters(metadata, filters)`
FilteredOut(document_metadata, filters) ==
    DOMAIN filters # {} /\ ~_match_filters(document_metadata, filters)

\* ----------------------------------------------------------------- search

\* The Euclidean length of a vector of the model (in units of 1/5)
Norm(v) == CHOOSE n \in 0..20 : n * n = v[1] * v[1] + v[2] * v[2]

\* faiss.normalize_L2 on the query vector: scaled to unit length
normalize_L2(v) == <<(5 * v[1]) \div Norm(v), (5 * v[2]) \div Norm(v)>>

\* The inner product of a unit-scaled query and a row, in score units
InnerProduct(q, vec) == (ScoreScale \div 25) * (q[1] * vec[1] + q[2] * vec[2])

\* The score IndexFlatIP gives row p (0-based) for the query vector
RowScore(idx, q, p) == InnerProduct(q, idx.rows[p + 1].vec)

\* Row p comes before row r in the answer of IndexFlatIP.search: higher inner
\* product first, the lower row first among equals.
RowBefore(idx, q, p, r) ==
    \/ RowScore(idx, q, p) > RowScore(idx, q, r)
    \/ RowScore(idx, q, p) = RowScore(idx, q, r) /\ p <= r

\* self.index.search(query_embedding, search_k): the rows of the search_k highest
\* inner products, best first
RECURSIVE NearestFrom(_, _, _, _)
NearestFrom(idx, q, rows, n) ==
    IF n = 0 \/ rows = {} THEN <<>>
    ELSE LET best == CHOOSE p \in rows : \A r \in rows : RowBefore(idx, q, p, r)
         IN  <<best>> \o NearestFrom(idx, q, rows \ {best}, n - 1)

Nearest(idx, q, search_k) == NearestFrom(idx, q, 0..(ntotal(idx) - 1), search_k)

\* A search result; `row` is history (the index position or store key it came from)
Result(meta, score, row) ==
    [document_id |-> meta.document_id, chunk_id |-> meta.chunk_id,
     content |-> meta.content, title |-> meta.title, score |-> score,
     metadata |-> meta.metadata, document_type |-> meta.document_type,
     timestamp |-> meta.timestamp, row |-> row]

\* The loop over the returned rows (faiss_indexer.py:209-235)
RECURSIVE ProcessRows(_, _, _, _, _, _, _)
ProcessRows(idx, store, q, indices, k, filters, results) ==
    IF indices = <<>> THEN results
    ELSE LET p == Head(indices)
             more == Tail(indices)
         IN  IF ~StoreHas(store, p)
             THEN ProcessRows(idx, store, q, more, k, filters, results)
             ELSE IF FilteredOut(StoreMeta(store, p), filters)
             THEN ProcessRows(idx, store, q, more, k, filters, results)
             ELSE LET results1 ==
                          Append(results, Result(StoreMeta(store, p), RowScore(idx, q, p), p))
                  IN  IF Len(results1) >= k THEN results1
                      ELSE ProcessRows(idx, store, q, more, k, filters, results1)

\* (mutant) the embedding fault is logged and an embedding is returned all the same
EmbeddingRaises_Swallowed(embed) == FALSE

\* _embed_text / _embed_texts: `except Exception as e: logger.error(...); raise`
EmbeddingRaises(embed) == embed = "fault"

\* (mutant) the query is embedded before the index is looked at
search_EmbedFirst(idx, store, query, k, filters, embed, zero_k) ==
    IF EmbeddingRaises(embed)
    THEN [raised |-> TRUE, results |-> <<>>, embed |-> embed]
    ELSE IF ~idx.exists \/ ntotal(idx) = 0
    THEN [raised |-> FALSE, results |-> <<>>, embed |-> embed]
    ELSE LET query_embedding == normalize_L2(Embed(query))
             search_k == Min(k * 2, ntotal(idx))
         IN  IF search_k = 0 /\ zero_k = "raise"
             THEN [raised |-> TRUE, results |-> <<>>, embed |-> embed]
             ELSE [raised |-> FALSE, embed |-> embed,
                   results |-> ProcessRows(idx, store, query_embedding,
                                           Nearest(idx, query_embedding, search_k),
                                           k, filters, <<>>)]

\* FAISSIndexer.search: [raised, results, embed].  With k = 0 the index is asked for
\* 0 neighbours, which an IndexFlatIP either refuses (zero_k = "raise") or answers
\* with no rows, depending on the faiss build.
search(idx, store, query, k, filters, embed, zero_k) ==
    IF ~idx.exists \/ ntotal(idx) = 0
    THEN [raised |-> FALSE, results |-> <<>>, embed |-> "not_called"]
    ELSE IF EmbeddingRaises(embed)
    THEN [raised |-> TRUE, results |-> <<>>, embed |-> embed]
    ELSE LET query_embedding == normalize_L2(Embed(query))
             search_k == Min(k * 2, ntotal(idx))
         IN  IF search_k = 0 /\ zero_k = "raise"
             THEN [raised |-> TRUE, results |-> <<>>, embed |-> embed]
             ELSE [raised |-> FALSE, embed |-> embed,
                   results |-> ProcessRows(idx, store, query_embedding,
                                           Nearest(idx, query_embedding, search_k),
                                           k, filters, <<>>)]

\* --------------------------------------------------------- keyword search

\* str.lower() on the alphabet of the model
Lower(text) == [i \in 1..Len(text) |-> IF text[i] = "A" THEN "a" ELSE text[i]]

\* set(text.split()): the maximal runs of non-whitespace characters
Words(text) ==
    {SubSeq(text, a, b) : <<a, b>> \in
        {<<a, b>> \in (1..Len(text)) \X (1..Len(text)) :
            /\ a <= b
            /\ \A i \in a..b : ~IsSpace(text[i])
            /\ (a = 1 \/ IsSpace(text[a - 1]))
            /\ (b = Len(text) \/ IsSpace(text[b + 1]))}}

\* (mutant) any shared word counts as a full match
KeywordScore_AnyWord(query, content) ==
    IF Words(Lower(query)) \cap Words(Lower(content)) = {} THEN 0 ELSE ScoreScale

\* len(matches) / len(query_words) if query_words else 0, in score units
KeywordScore(query, content) ==
    LET query_words == Words(Lower(query))
        content_words == Words(Lower(content))
    IN  IF query_words = {} THEN 0
        ELSE (ScoreScale * Cardinality(query_words \cap content_words))
                 \div Cardinality(query_words)

\* list.sort(key=score, reverse=True): stable, equal scores keep their order
RECURSIVE SortByScore(_)
SortByScore(results) ==
    IF results = <<>> THEN <<>>
    ELSE LET best == CHOOSE i \in 1..Len(results) :
                        \A j \in 1..Len(results) :
                           \/ results[i].score > results[j].score
                           \/ results[i].score = results[j].score /\ i <= j
             rest == [j \in 1..(Len(results) - 1) |->
                         IF j < best THEN results[j] ELSE results[j + 1]]
         IN  <<results[best]>> \o SortByScore(rest)

\* results[:n] for n >= 0
Truncate(results, n) == SubSeq(results, 1, Min(n, Len(results)))

\* The scan of the Chunk Store in dictionary order (faiss_query.py:138-161)
KeywordHits(store, query, filters) ==
    LET F[i \in 0..Len(store)] ==
            IF i = 0 THEN <<>>
            ELSE LET metadata == store[i].meta
                     score == KeywordScore(query, metadata.content)
                 IN  IF FilteredOut(metadata, filters) \/ ~(score > 0) THEN F[i - 1]
                     ELSE Append(F[i - 1], Result(metadata, score, store[i].key))
    IN  F[Len(store)]

\* FAISSQueryEngine._keyword_search
_keyword_search(store, query, k, filters) ==
    Truncate(SortByScore(KeywordHits(store, query, filters)), k)

\* ------------------------------------------------------------------ fusion

ChunkIds(results) == {results[i].chunk_id : i \in 1..Len(results)}

\* The first loop of _merge_results: the semantic hits, first of each chunk_id
RECURSIVE SeedSemantic(_, _)
SeedSemantic(semantic_results, merged) ==
    IF semantic_results = <<>> THEN merged
    ELSE LET result == Head(semantic_results)
         IN  SeedSemantic(Tail(semantic_results),
                          IF result.chunk_id \in ChunkIds(merged) THEN merged
                          ELSE Append(merged, result))

\* (mutant) the keyword score is kept as it is
Boosted_Plain(score) == score

\* result["score"] * 0.8 + 0.2, in score units
Boosted(score) == (4 * score) \div 5 + ScoreScale \div 5

\* The second loop: the keyword hits not yet present, rescored
RECURSIVE AppendKeyword(_, _)
AppendKeyword(keyword_results, merged) ==
    IF keyword_results = <<>> THEN merged
    ELSE LET result == Head(keyword_results)
         IN  AppendKeyword(Tail(keyword_results),
                           IF result.chunk_id \in ChunkIds(merged) THEN merged
                           ELSE Append(merged, [result EXCEPT !.score = Boosted(@)]))

\* FAISSQueryEngine._merge_results
_merge_results(semantic_results, keyword_results, max_results) ==
    Truncate(SortByScore(AppendKeyword(keyword_results,
                                       SeedSemantic(semantic_results, <<>>))),
             max_results)

\* ------------------------------------------------------- _search_documents

\* (mutant) the API keys are passed on as they are
IndexerKey_Unmapped(api_key) == api_key

\* filter_mapping.get(api_key, api_key)
IndexerKey(api_key) ==
    CASE api_key = "project_id"    -> "project_ids"
      [] api_key = "contractor"    -> "contractors"
      [] api_key = "status"        -> "statuses"
      [] api_key = "document_type" -> "document_types"
      [] api_key = "category"      -> "categories"
      [] OTHER                     -> api_key

ListKeys == {"project_ids", "contractors", "statuses", "document_types", "categories"}

\* FAISSQueryEngine._convert_filters.  An API value is [list |-> members] or
\* [scalar |-> value]; a scalar under a list key becomes the one-element list.
_convert_filters(filters) ==
    [indexer_key \in {IndexerKey(api_key) : api_key \in DOMAIN filters} |->
        LET api_key == CHOOSE a \in DOMAIN filters : IndexerKey(a) = indexer_key
            value == filters[api_key]
        IN  IF "list" \in DOMAIN value THEN value.list
            ELSE IF indexer_key \in ListKeys THEN {value.scalar}
            ELSE value.scalar]

\* (mutant) every result is kept
AboveThreshold_Off(results, confidence_threshold) == results

\* [result for result in results if result.get("score", 0) >= confidence_threshold]
AboveThreshold(results, confidence_threshold) ==
    SelectSeq(results, LAMBDA result : result.score >= confidence_threshold)

\* (mutant) the caps of the two retrievals are rounded up
HybridCap_RoundedUp(max_results) == (max_results + 1) \div 2

\* request.max_results // 2: the cap of either retrieval in hybrid mode
HybridCap(max_results) == max_results \div 2

\* FAISSQueryEngine._search_documents: any exception of the retrieval gives []
_search_documents(idx, store, request, embed, zero_k) ==
    LET indexer_filters == _convert_filters(request.filters)
        half == HybridCap(request.max_results)
        semantic == search(idx, store, request.query,
                           IF request.search_mode = "semantic"
                           THEN request.max_results ELSE half,
                           indexer_filters, embed, zero_k)
        results ==
            CASE request.search_mode = "semantic" -> semantic.results
              [] request.search_mode = "keyword" ->
                    _keyword_search(store, request.query, request.max_results,
                                    indexer_filters)
              [] OTHER ->
                    _merge_results(semantic.results,
                                   _keyword_search(store, request.query, half,
                                                   indexer_filters),
                                   request.max_results)
        filtered_results == AboveThreshold(results, request.confidence_threshold)
    IN  IF request.search_mode # "keyword" /\ semantic.raised
        THEN [results |-> <<>>, embed |-> semantic.embed, swallowed |-> TRUE]
        ELSE [results |-> filtered_results,
              embed |-> IF request.search_mode = "keyword" THEN "not_called"
                        ELSE semantic.embed,
              swallowed |-> FALSE]

\* -------------------------------------------------------- answer synthesis

\* The cuts result["content"][:500] and [:200], scaled to the texts of the model
answer_chars == 3
snippet_chars == 2

\* text[:n]
Prefix(text, n) == SubSeq(text, 1, Min(n, Len(text)))

\* pydantic Field(..., ge=0.0, le=1.0) on relevance_score and confidence
InUnitRange(score) == 0 <= score /\ score <= ScoreScale

\* (mutant) the relevance is not taken from the result
SourceReference_FullScore(result) ==
    [document_id |-> result.document_id,
     document_name |-> result.title,
     document_type |-> result.document_type,
     text_snippet |-> result.content,
     deep_link |-> <<result.document_id, result.chunk_id>>,
     relevance_score |-> ScoreScale]

\* SourceReference(...) built from one result (faiss_query.py:228-235)
SourceReference(result) ==
    [document_id |-> result.document_id,
     document_name |-> result.title,
     document_type |-> result.document_type,
     text_snippet |-> IF Len(result.content) > snippet_chars
                      THEN Prefix(result.content, snippet_chars) \o <<".", ".", ".">>
                      ELSE result.content,
     deep_link |-> <<result.document_id, result.chunk_id>>,
     relevance_score |-> result.score]

\* `pattern_type in query_lower`
Contains(text, sub) ==
    \E a \in 1..(Len(text) - Len(sub) + 1) : SubSeq(text, a, a + Len(sub) - 1) = sub

\* The keys of related_patterns in dictionary order ("obligation", "sla", "payment",
\* "project"), scaled to one-letter words of the model's alphabet
related_patterns == <<<<"o">>, <<"s">>, <<"p">>, <<"c">>>>

\* len(word) > 3 for a key term, scaled to the words of the model
key_term_chars == 1

\* key_terms[0] if key_terms else "this project": the first word of query.split()
\* that is long enough
Context(query) ==
    LET starts == {a \in 1..Len(query) :
                     /\ ~IsSpace(query[a])
                     /\ (a = 1 \/ IsSpace(query[a - 1]))
                     /\ \E b \in a..Len(query) :
                           /\ \A i \in a..b : ~IsSpace(query[i])
                           /\ (b = Len(query) \/ IsSpace(query[b + 1]))
                           /\ b - a + 1 > key_term_chars}
    IN  IF starts = {} THEN <<"this project">>
        ELSE LET a == CHOOSE x \in starts : \A y \in starts : x <= y
                 b == CHOOSE y \in a..Len(query) :
                        /\ \A i \in a..y : ~IsSpace(query[i])
                        /\ (y = Len(query) \/ IsSpace(query[y + 1]))
             IN  SubSeq(query, a, b)

\* (mutant) the suggestions are lost, as on the except path
_get_related_queries_None(query) == <<>>

\* FAISSQueryEngine._get_related_queries: two templates of the first pattern found in
\* the query, else the three default suggestions; suggestions[:3]
_get_related_queries(query) ==
    LET query_lower == Lower(query)
        found == {i \in 1..Len(related_patterns) : Contains(query_lower, related_patterns[i])}
        suggestions ==
            IF found = {}
            THEN [t \in 1..3 |-> [pattern |-> "default", template |-> t,
                                  context |-> Context(query)]]
            ELSE LET first == CHOOSE i \in found : \A j \in found : i <= j
                 IN  [t \in 1..2 |-> [pattern |-> related_patterns[first], template |-> t,
                                       context |-> Context(query)]]
    IN  Prefix(suggestions, 3)

\* What the chat-completion call of the LLM collaborator does
LlmOutcomes == {"answer", "unsure", "fail"}

\* FAISSQueryEngine._generate_ai_answer: [text, confidence]; 0.8 for an answer, 0.3
\* for a short or "don't have enough information" reply, and on any exception the
\* except clause returns ("Unable to generate AI answer", 0.2)
_generate_ai_answer(llm) ==
    CASE llm = "answer" -> [text |-> "llm answer", confidence |-> (4 * ScoreScale) \div 5]
      [] llm = "unsure" -> [text |-> "llm unsure", confidence |-> (3 * ScoreScale) \div 10]
      [] OTHER -> [text |-> "Unable to generate AI answer", confidence |-> ScoreScale \div 5]

NoAnswer == [answer_type |-> "none", answer |-> "none", confidence |-> 0,
             sources |-> <<>>, related_queries |-> <<>>]

\* FAISSQueryEngine._generate_answer.  A score outside [0, 1] fails the validation of
\* SourceReference (or QAAnswer), which the except clause turns into the error Answer.
_generate_answer(request, search_results, answer_generator, llm) ==
    IF search_results = <<>>
    THEN [answer_type |-> "not_found", answer |-> "not found", confidence |-> 0,
          sources |-> <<>>, related_queries |-> _get_related_queries(request.query)]
    ELSE IF \E i \in 1..Len(search_results) : ~InUnitRange(search_results[i].score)
    THEN [answer_type |-> "error", answer |-> "error", confidence |-> 0,
          sources |-> <<>>, related_queries |-> <<>>]
    ELSE LET sources == [i \in 1..Len(search_results) |->
                            SourceReference(search_results[i])]
         IN  IF answer_generator /\ request.include_context
             THEN LET ai == _generate_ai_answer(llm)
                  IN  [answer_type |-> "synthesized", answer |-> ai.text,
                       confidence |-> ai.confidence, sources |-> sources,
                       related_queries |-> _get_related_queries(request.query)]
             ELSE [answer_type |-> "direct",
                   answer |-> Prefix(search_results[1].content, answer_chars),
                   confidence |-> search_results[1].score, sources |-> sources,
                   related_queries |-> _get_related_queries(request.query)]

\* FAISSQueryEngine.query: retrieval, then synthesis; QAResult(answer,
\* search_results_count = len(search_results))
FAISSQueryEngine_query(idx, store, request, answer_generator, embed, zero_k, llm) ==
    LET found == _search_documents(idx, store, request, embed, zero_k)
    IN  [raised |-> FALSE,
         search_results |-> found.results,
         answer |-> _generate_answer(request, found.results, answer_generator, llm),
         search_results_count |-> Len(found.results),
         embed |-> found.embed]

\* ------------------------------------------------------------------ stats

\* FAISSIndexer.get_index_stats (the counts)
get_index_stats(idx, store) ==
    [total_vectors    |-> IF idx.exists THEN ntotal(idx) ELSE 0,
     active_documents |-> Cardinality({store[i].meta.document_id : i \in 1..Len(store)}),
     total_chunks     |-> Len(store)]

\* ---------------------------------------------------------------- history

NoOp == [op |-> "init", docs |-> <<>>, ids |-> {}, ret |-> -1, raised |-> FALSE,
         query |-> <<>>, k |-> 0, filters |-> NoFilters, mode |-> "none",
         threshold |-> 0, results |-> <<>>,
         embed |-> "not_called", index_write |-> "not_called",
         store_write |-> "not_called", index_read |-> "not_called",
         store_read |-> "not_called",
         include_context |-> FALSE, answer_generator |-> FALSE, llm |-> "not_called",
         semantic_results |-> <<>>, keyword_results |-> <<>>,
         answer |-> NoAnswer, search_results_count |-> -1,
         before |-> <<>>,
         text |-> <<>>, size |-> 0, ovl |-> 0, chunks |-> <<>>]

\* ------------------------------------------------------------------ actions

\* The process before the first get_indexer() call, and once initialize() has returned
NotCreated == [created |-> FALSE, initialized |-> FALSE]
Ready == [created |-> TRUE, initialized |-> TRUE]

Init ==
    /\ index = NoIndex
    /\ document_store = <<>>
    /\ disk_index = MissingFile
    /\ disk_store = MissingFile
    /\ tasks = <<>>
    /\ lifecycle = Ready
    /\ io_faults = 0
    /\ deleted = {}
    /\ last = NoOp

\* The ids a batch adds (again)
AddedIds(metas) == {metas[i].document_id : i \in 1..Len(metas)}

\* (mutant) the documents are embedded and appended one by one, so the first document
\* of a batch is in the index when the embedding of a later one faults
add_documents_PerDocument(documents, env) ==
    LET metas == Prepared[documents]
        rec == [NoOp EXCEPT !.op = "add", !.docs = documents]
    IN  IF documents = <<>> \/ metas = <<>>
        THEN /\ last' = [rec EXCEPT !.ret = 0]
             /\ UNCHANGED <<index, document_store, disk_index, disk_store, deleted>>
        ELSE IF EmbeddingRaises(env.embed)
        THEN LET first == DocChunks(Head(documents))
                 index0 == EnsureIndex(index)
             IN  /\ last' = [rec EXCEPT !.raised = TRUE, !.embed = env.embed]
                 /\ index' = IndexAdd(index0, first)
                 /\ document_store' = RegisterChunks(document_store, ntotal(index0), first)
                 /\ UNCHANGED <<disk_index, disk_store, deleted>>
        ELSE LET index0 == EnsureIndex(index)
                 start_index == ntotal(index0)
                 index1 == IndexAdd(index0, metas)
                 store1 == RegisterChunks(document_store, start_index, metas)
                 saved == _save_index(index1, store1, disk_index, disk_store,
                                      env.index_write, env.store_write)
             IN  /\ index' = index1
                 /\ document_store' = store1
                 /\ disk_index' = saved.disk_index
                 /\ disk_store' = saved.disk_store
                 /\ deleted' = deleted \ AddedIds(metas)
                 /\ last' = [rec EXCEPT !.ret = IF saved.raised THEN -1 ELSE Len(metas),
                                        !.raised = saved.raised,
                                        !.embed = env.embed,
                                        !.index_write = saved.index_write,
                                        !.store_write = saved.store_write]

\* FAISSIndexer.add_documents, run to completion with no other coroutine interleaved
add_documents(documents, env) ==
    LET metas == Prepared[documents]
        rec == [NoOp EXCEPT !.op = "add", !.docs = documents]
    IN  IF documents = <<>> \/ metas = <<>>
        THEN /\ last' = [rec EXCEPT !.ret = 0]
             /\ UNCHANGED <<index, document_store, disk_index, disk_store, deleted>>
        ELSE IF EmbeddingRaises(env.embed)
        THEN /\ last' = [rec EXCEPT !.raised = TRUE, !.embed = env.embed]
             /\ UNCHANGED <<index, document_store, disk_index, disk_store, deleted>>
        ELSE LET index0 == EnsureIndex(index)
                 start_index == ntotal(index0)
                 index1 == IndexAdd(index0, metas)
                 store1 == RegisterChunks(document_store, start_index, metas)
                 saved == _save_index(index1, store1, disk_index, disk_store,
                                      env.index_write, env.store_write)
             IN  /\ index' = index1
                 /\ document_store' = store1
                 /\ disk_index' = saved.disk_index
                 /\ disk_store' = saved.disk_store
                 /\ deleted' = deleted \ AddedIds(metas)
                 /\ last' = [rec EXCEPT !.ret = IF saved.raised THEN -1 ELSE Len(metas),
                                        !.raised = saved.raised,
                                        !.embed = env.embed,
                                        !.index_write = saved.index_write,
                                        !.store_write = saved.store_write]

\* (mutant) the scan stops at the first entry that matches
IndicesToRemove_FirstOnly(store, ids) ==
    LET hits == {i \in 1..Len(store) : store[i].meta.document_id \in ids}
    IN  IF hits = {} THEN <<>>
        ELSE <<store[CHOOSE i \in hits : \A j \in hits : i <= j].key>>

\* The keys whose entry belongs to one of the ids, in dictionary order
IndicesToRemove(store, ids) ==
    LET F[i \in 0..Len(store)] ==
            IF i = 0 THEN <<>>
            ELSE IF store[i].meta.document_id \in ids
                 THEN Append(F[i - 1], store[i].key) ELSE F[i - 1]
    IN  F[Len(store)]

\* The loop `for index_id in indices_to_remove: del self.document_store[index_id]`
RECURSIVE DeleteKeys(_, _, _)
DeleteKeys(store, keys, count) ==
    IF keys = <<>> THEN [store |-> store, deleted_count |-> count]
    ELSE IF StoreHas(store, Head(keys))
    THEN DeleteKeys(StoreDel(store, Head(keys)), Tail(keys), count + 1)
    ELSE DeleteKeys(store, Tail(keys), count)

\* FAISSIndexer.delete_documents
delete_documents(ids, store_write) ==
    LET rec == [NoOp EXCEPT !.op = "delete", !.ids = ids]
        indices_to_remove == IndicesToRemove(document_store, ids)
    IN  IF ~index.exists \/ indices_to_remove = <<>>
        THEN /\ last' = [rec EXCEPT !.ret = 0]
             /\ UNCHANGED <<index, document_store, disk_index, disk_store, deleted>>
        ELSE LET done == DeleteKeys(document_store, indices_to_remove, 0)
                 saved == _save_document_store(done.store, disk_store, store_write)
             IN  /\ document_store' = done.store
                 /\ disk_store' = saved.disk_store
                 /\ deleted' = deleted \cup ids
                 /\ last' = [rec EXCEPT !.ret = IF saved.raised THEN -1
                                                ELSE done.deleted_count,
                                        !.raised = saved.raised,
                                        !.store_write = saved.store_write]
                 /\ UNCHANGED <<index, disk_index>>

\* A new process: FAISSIndexer.__init__ and initialize(), which loads the snapshots
Restart(index_read, store_read) ==
    LET got == _load_index(disk_index, disk_store, index_read, store_read)
    IN  /\ index' = got.index
        /\ document_store' = got.document_store
        /\ deleted' = {}
        /\ last' = [NoOp EXCEPT !.op = "load",
                                !.index_read = index_read, !.store_read = store_read,
                                !.raised = FALSE]
        /\ UNCHANGED <<disk_index, disk_store>>

\* What the environment does to one add_documents call: the embedding call faults
\* or not, and then each snapshot write that is reached succeeds or raises.
EnvOk == [embed |-> "ok", index_write |-> "ok", store_write |-> "ok"]
EnvFault == [embed |-> "fault", index_write |-> "ok", store_write |-> "ok"]
AddEnvs ==
    {EnvOk, EnvFault,
     [embed |-> "ok", index_write |-> "fail", store_write |-> "ok"],
     [embed |-> "ok", index_write |-> "ok", store_write |-> "fail"]}

\* How many of the outcomes are failures
Failed(outcomes) == Cardinality({i \in DOMAIN outcomes : outcomes[i] = "fail"})

AddDocumentsIn(envs) ==
    \E documents \in Batches :
        LET n == Len(Prepared[documents])
        IN  /\ ntotal(index) + n <= MaxVectors
            /\ \E env \in (IF n = 0 THEN {EnvOk} ELSE envs) :
                   /\ add_documents(documents, env)
                   /\ io_faults' = io_faults + Failed(<<last'.index_write, last'.store_write>>)
                   /\ io_faults' <= MaxFaults
            /\ UNCHANGED <<tasks, lifecycle>>

DeleteDocumentsIn(outcomes) ==
    \E ids \in SUBSET DocIds, store_write \in outcomes :
        /\ store_write = "fail" => IndicesToRemove(document_store, ids) # <<>>
        /\ delete_documents(ids, store_write)
        /\ io_faults' = io_faults + Failed(<<store_write>>)
        /\ io_faults' <= MaxFaults
        /\ UNCHANGED <<tasks, lifecycle>>

RestartProcess ==
    \E reads \in {<<"ok", "ok">>, <<"fail", "ok">>, <<"ok", "fail">>} :
        /\ reads # <<"ok", "ok">> => disk_index.state = "ok" /\ disk_store.state = "ok"
        /\ Restart(reads[1], reads[2])
        /\ io_faults' = io_faults + Failed(reads)
        /\ io_faults' <= MaxFaults
        /\ UNCHANGED <<tasks, lifecycle>>

\* add_documents and delete_documents with every outcome of the snapshot writes
AddDocuments == AddDocumentsIn(AddEnvs)
DeleteDocuments == DeleteDocumentsIn(WriteOutcomes)

\* The indexer over process lifetimes: insertion, deletion, snapshots and restarts
Next == AddDocuments \/ DeleteDocuments \/ RestartProcess

Spec == Init /\ [][Next]_vars

\* -------------------------------------------------------- retrieval actions

Queries == {<<"a">>, <<"A", " ", "c">>}
IndexerFilters == {NoFilters, [project_ids |-> {"P1"}], [document_types |-> {"contract"}]}
ApiFilters == {NoFilters, [project_id |-> [scalar |-> "P1"]],
               [document_type |-> [list |-> {"contract"}]]}
SearchModes == {"semantic", "keyword", "hybrid"}
Thresholds == {0, ScoreScale \div 2}
ZeroK == {"raise", "empty"}

\* (mutant) a search compacts the index it has just read
Reads_Compacting ==
    /\ index' = [exists |-> index.exists,
                 rows |-> SelectSeq(index.rows, LAMBDA row : FALSE)]
    /\ UNCHANGED <<document_store, disk_index, disk_store, tasks, lifecycle, io_faults,
                 deleted>>

\* search, _keyword_search and query assign no attribute of the indexer
Reads ==
    UNCHANGED <<index, document_store, disk_index, disk_store, tasks, lifecycle, io_faults,
                deleted>>

\* A call of FAISSIndexer.search
Search ==
    \E query \in Queries, k \in 0..MaxK, filters \in IndexerFilters,
       embed \in {"ok", "fault"}, zero_k \in ZeroK :
        \* one transition per distinct outcome: the embedding provider is only
        \* reached on a non-empty index, the build only matters for k = 0
        /\ embed = "fault" \/ zero_k = "empty" => index.exists /\ ntotal(index) > 0
        /\ zero_k = "empty" => k = 0 /\ embed = "ok"
        /\ \E got \in {search(index, document_store, query, k, filters, embed, zero_k)} :
            /\ last' = [NoOp EXCEPT !.op = "search", !.query = query, !.k = k,
                                    !.filters = filters, !.results = got.results,
                                    !.raised = got.raised, !.embed = got.embed]
            /\ Reads

\* A call of FAISSQueryEngine._keyword_search
KeywordSearch ==
    \E query \in Queries, k \in 0..MaxK, filters \in IndexerFilters :
        /\ last' = [NoOp EXCEPT !.op = "keyword", !.query = query, !.k = k,
                                !.filters = filters,
                                !.results = _keyword_search(document_store, query, k, filters)]
        /\ Reads

\* The retrieval step of FAISSQueryEngine.query
SearchDocuments ==
    \E query \in Queries, max_results \in 1..MaxK, filters \in ApiFilters,
       search_mode \in SearchModes, confidence_threshold \in Thresholds,
       embed \in {"ok", "fault"}, zero_k \in ZeroK :
        LET request == [query |-> query, max_results |-> max_results, filters |-> filters,
                        search_mode |-> search_mode,
                        confidence_threshold |-> confidence_threshold]
        IN  /\ embed = "fault" \/ zero_k = "empty" =>
                   index.exists /\ ntotal(index) > 0 /\ search_mode # "keyword"
            /\ zero_k = "empty" => embed = "ok" /\ max_results = 1 /\ search_mode = "hybrid"
            /\ \E got \in {_search_documents(index, document_store, request, embed, zero_k)} :
                last' = [NoOp EXCEPT !.op = "retrieve", !.query = query,
                                    !.k = max_results, !.filters = filters,
                                    !.mode = search_mode,
                                    !.threshold = confidence_threshold,
                                    !.results = got.results, !.embed = got.embed]
            /\ Reads

\* ---------------------------------------------------- the filter evaluator

\* The dicts with at most the one key `key`, its value from vals
Opt(key, vals) == {NoFilters} \cup {key :> v : v \in vals}

\* Every union of one dict from each of two sets of dicts over different keys
Both(A, B) == {a @@ b : a \in A, b \in B}

\* Chunk Store entries as far as the evaluator reads them: the document's metadata
\* dict, document_type (None when the document had none) and timestamp (0 is None)
FilterChunks ==
    {[metadata |-> md, document_type |-> dt, timestamp |-> ts] :
        md \in Both(Opt("project_id", {"P1", "P2"}),
                    Both(Opt("confidence", {(2 * ScoreScale) \div 5, ScoreScale}),
                         Opt("status", {"open"}))),
        dt \in {None, "contract"},
        ts \in {0, 1, 3}}

\* Filter dicts: list filters, confidence_min, date_range with either end open, and
\* a key the evaluator does not know
FilterSets ==
    Both(Opt("project_ids", {{"P1"}, {"P1", "P2"}}),
    Both(Opt("statuses", {{"open"}}),
    Both(Opt("categories", {{"legal"}}),
    Both(Opt("document_types", {{"contract"}}),
    Both(Opt("confidence_min", {ScoreScale \div 2}),
    Both(Opt("date_range", {[start |-> 2], [end |-> 2], [start |-> 1, end |-> 2]}),
         Opt("region", {"emea"})))))))

InitFilter ==
    /\ index = NoIndex
    /\ document_store = <<>>
    /\ disk_index = MissingFile
    /\ disk_store = MissingFile
    /\ tasks = <<>>
    /\ lifecycle = Ready
    /\ io_faults = 0
    /\ deleted = {}
    /\ \E chunk \in FilterChunks, filters \in FilterSets :
          last = [NoOp EXCEPT !.op = "match_input", !.docs = <<chunk>>,
                              !.filters = filters]

\* A call of FAISSIndexer._match_filters; ret is 1 for True and 0 for False
MatchFilters ==
    /\ last.op = "match_input"
    /\ last' = [last EXCEPT !.op = "match",
                            !.ret = IF _match_filters(last.docs[1], last.filters)
                                    THEN 1 ELSE 0]
    /\ UNCHANGED <<index, document_store, disk_index, disk_store, tasks, lifecycle,
                   io_faults, deleted>>

\* The filter evaluator on its own, over chunks and filter dicts
SpecFilter == InitFilter /\ [][MatchFilters]_vars

\* The texts of the questions put to the engine
QueryTexts == Queries \cup {<<"a", "b">>}

\* A call of FAISSIndexer.search whatever the index holds, with an embedding provider
\* that answers or faults if it is called
SearchWithProvider ==
    \E query \in Queries, k \in 0..MaxK, filters \in IndexerFilters,
       embed \in {"ok", "fault"}, zero_k \in ZeroK :
        /\ zero_k = "empty" => k = 0 /\ embed = "ok" /\ index.exists /\ ntotal(index) > 0
        /\ \E got \in {search(index, document_store, query, k, filters, embed, zero_k)} :
            /\ last' = [NoOp EXCEPT !.op = "search", !.query = query, !.k = k,
                                    !.filters = filters, !.results = got.results,
                                    !.raised = got.raised, !.embed = got.embed]
            /\ Reads

\* Searches over process lifetimes: the index may be missing, loaded or reset
NextReload ==
    \/ AddDocumentsIn({EnvOk})
    \/ RestartProcess
    \/ SearchWithProvider

SpecReload == Init /\ [][NextReload]_vars

\* The engine's calls leave the indexer as they found it, so the state after one is
\* the state before it: they are taken from the states the writes and loads reach
AfterWrite == last.op \in {"init", "add", "delete", "load"}

\* A call of FAISSQueryEngine._merge_results on the hits of a semantic and of a
\* keyword search over the same store
MergeResults ==
    \E q \in Queries, k_semantic \in 1..MaxK, k_keyword \in 1..MaxK,
       max_results \in 1..MaxK :
        /\ AfterWrite
        /\ \E semantic \in {search(index, document_store, q, k_semantic, NoFilters,
                                   "ok", "raise")} :
            \E keyword_results \in {_keyword_search(document_store, q, k_keyword,
                                                    NoFilters)} :
                /\ semantic.results # <<>> \/ keyword_results # <<>>
                /\ last' = [NoOp EXCEPT !.op = "merge", !.query = q, !.k = max_results,
                                        !.semantic_results = semantic.results,
                                        !.keyword_results = keyword_results,
                                        !.results = _merge_results(semantic.results,
                                                                  keyword_results,
                                                                  max_results)]
        /\ Reads

\* request.confidence_threshold: none, and 0.6
QueryThresholds == {0, (3 * ScoreScale) \div 5}

\* A call of FAISSQueryEngine.query in one of the modes, with max_results from caps
QueryIn(modes, caps) ==
    \E q \in QueryTexts, max_results \in caps, filters \in ApiFilters,
       search_mode \in modes, confidence_threshold \in QueryThresholds,
       include_context \in BOOLEAN, answer_generator \in BOOLEAN,
       embed \in {"ok", "fault"}, zero_k \in ZeroK, llm \in LlmOutcomes :
        LET request == [query |-> q, max_results |-> max_results, filters |-> filters,
                        search_mode |-> search_mode,
                        confidence_threshold |-> confidence_threshold,
                        include_context |-> include_context]
        IN  /\ AfterWrite
            \* one transition per distinct outcome, as in SearchDocuments
            /\ embed = "fault" \/ zero_k = "empty" =>
                   index.exists /\ ntotal(index) > 0 /\ search_mode # "keyword"
            /\ zero_k = "empty" => embed = "ok" /\ max_results = 1 /\ search_mode = "hybrid"
            /\ (~answer_generator \/ ~include_context) => llm = "answer"
            /\ \E got \in {FAISSQueryEngine_query(index, document_store, request,
                                                   answer_generator, embed, zero_k, llm)} :
                /\ got.answer.answer_type # "synthesized" => llm = "answer"
                /\ last' = [NoOp EXCEPT !.op = "query", !.query = q,
                                        !.k = max_results, !.filters = filters,
                                        !.mode = search_mode,
                                        !.threshold = confidence_threshold,
                                        !.include_context = include_context,
                                        !.answer_generator = answer_generator,
                                        !.llm = IF got.answer.answer_type = "synthesized"
                                                THEN llm ELSE "not_called",
                                        !.results = got.search_results,
                                        !.embed = got.embed,
                                        !.raised = got.raised,
                                        !.answer = got.answer,
                                        !.search_results_count = got.search_results_count]
            /\ Reads

\* A call of FAISSQueryEngine.query
Query == QueryIn(SearchModes, 1..MaxK)

\* Largest max_results of a hybrid query
MaxResults == 3

\* A query in hybrid mode
HybridQuery == QueryIn({"hybrid"}, 1..MaxResults)

\* Hybrid queries with small and odd result caps over a changing corpus
NextHybrid ==
    \/ AddDocumentsIn({EnvOk})
    \/ DeleteDocumentsIn({"ok"})
    \/ HybridQuery

SpecHybrid == Init /\ [][NextHybrid]_vars

\* The question-answering engine over an indexer whose snapshot writes succeed
NextQuery ==
    \/ AddDocumentsIn({EnvOk})
    \/ DeleteDocumentsIn({"ok"})
    \/ MergeResults
    \/ Query

SpecQuery == Init /\ [][NextQuery]_vars

\* The indexer and the retrieval paths in one process whose snapshot writes succeed
NextSearch ==
    \/ AddDocumentsIn({EnvOk, EnvFault})
    \/ DeleteDocumentsIn({"ok"})
    \/ Search
    \/ KeywordSearch
    \/ SearchDocuments

SpecSearch == Init /\ [][NextSearch]_vars

\* ------------------------------------------------------- repeated reads

\* The same search call once more, right after one that returned: same query, k and
\* filters, same faiss build, the embedding provider answering.  `before` is
\* history: what the first call returned.
SearchAgain ==
    /\ last.op = "search" /\ ~last.raised
    /\ \E got \in {search(index, document_store, last.query, last.k, last.filters,
                          "ok", "empty")} :
          last' = [last EXCEPT !.op = "search_again", !.results = got.results,
                               !.raised = got.raised, !.embed = got.embed,
                               !.before = last.results]
    /\ Reads

\* The read path of one process: searches, repeated searches, keyword searches and
\* queries between the writes
NextRead ==
    \/ AddDocumentsIn({EnvOk})
    \/ DeleteDocumentsIn({"ok"})
    \/ Search
    \/ SearchAgain
    \/ KeywordSearch
    \/ Query

SpecRead == Init /\ [][NextRead]_vars

\* ---------------------------------------------- concurrent add_documents

\* One add_documents coroutine between two awaits.  pc names the await it is
\* suspended at: "embed" (_embed_texts), "add" (index.add in the executor, not yet
\* run), "added" (index.add has run, the coroutine has not resumed), "write_index"
\* and "write_store" (the two snapshot writes), "done" (returned or raised).
Task(documents) ==
    [pc |-> "embed", docs |-> documents, metas |-> Prepared[documents],
     start_index |-> 0, ret |-> -1, raised |-> FALSE]

OtherState == UNCHANGED <<lifecycle, io_faults, deleted>>

\* The rows that the calls in flight have still to append
RECURSIVE PendingRows(_)
PendingRows(ts) ==
    IF ts = <<>> THEN 0
    ELSE (IF Head(ts).pc \in {"embed", "add"} THEN Len(Head(ts).metas) ELSE 0)
         + PendingRows(Tail(ts))

\* The call up to `await self._embed_texts(texts_to_embed)`; a batch without valid
\* chunks returns 0 at once
StartAdd ==
    \E documents \in Batches :
        /\ Len(tasks) < MaxTasks
        /\ ntotal(index) + PendingRows(tasks) + Len(Prepared[documents]) <= MaxVectors
        /\ tasks' = Append(tasks,
                           IF Prepared[documents] = <<>>
                           THEN [Task(documents) EXCEPT !.pc = "done", !.ret = 0]
                           ELSE Task(documents))
        /\ UNCHANGED <<index, document_store, disk_index, disk_store, last>>
        /\ OtherState

\* The embedding call returns: on a fault the coroutine raises; else it creates the
\* index if there is none, reads start_index = self.index.ntotal and hands
\* index.add to the executor (faiss_indexer.py:148-160)
EmbedDone(t) ==
    \E embed \in {"ok", "fault"} :
        /\ tasks[t].pc = "embed"
        /\ IF EmbeddingRaises(embed)
           THEN /\ tasks' = [tasks EXCEPT ![t].pc = "done", ![t].raised = TRUE]
                /\ UNCHANGED index
           ELSE /\ index' = EnsureIndex(index)
                /\ tasks' = [tasks EXCEPT ![t].pc = "add",
                                          ![t].start_index = ntotal(index)]
        /\ UNCHANGED <<document_store, disk_index, disk_store, last>>
        /\ OtherState

\* The executor thread runs self.index.add(embeddings)
ExecutorAdd(t) ==
    /\ tasks[t].pc = "add"
    /\ index' = IndexAdd(index, tasks[t].metas)
    /\ tasks' = [tasks EXCEPT ![t].pc = "added"]
    /\ UNCHANGED <<document_store, disk_index, disk_store, last>>
    /\ OtherState

\* The coroutine resumes: the store loop, then _save_index up to its first await
Register(t) ==
    /\ tasks[t].pc = "added"
    /\ document_store' = RegisterChunks(document_store, tasks[t].start_index, tasks[t].metas)
    /\ tasks' = [tasks EXCEPT ![t].pc = "write_index"]
    /\ UNCHANGED <<index, disk_index, disk_store, last>>
    /\ OtherState

\* The executor writes the index as it is now; _save_document_store is awaited next
WriteIndex(t) ==
    /\ tasks[t].pc = "write_index"
    /\ disk_index' = Written(disk_index, index.rows, "ok")
    /\ tasks' = [tasks EXCEPT ![t].pc = "write_store"]
    /\ UNCHANGED <<index, document_store, disk_store, last>>
    /\ OtherState

\* The executor pickles the store as it is now, and the call returns the chunk count
WriteStoreAndReturn(t) ==
    /\ tasks[t].pc = "write_store"
    /\ disk_store' = Written(disk_store, document_store, "ok")
    /\ tasks' = [tasks EXCEPT ![t].pc = "done", ![t].ret = Len(tasks[t].metas)]
    /\ last' = [NoOp EXCEPT !.op = "add", !.docs = tasks[t].docs,
                            !.ret = Len(tasks[t].metas), !.embed = "ok",
                            !.index_write = "ok", !.store_write = "ok"]
    /\ UNCHANGED <<index, document_store, disk_index>>
    /\ OtherState

NextConc ==
    \/ StartAdd
    \/ \E t \in DOMAIN tasks :
          \/ EmbedDone(t)
          \/ ExecutorAdd(t)
          \/ Register(t)
          \/ WriteIndex(t)
          \/ WriteStoreAndReturn(t)

\* add_documents calls interleaving at every await on the shared indexer
SpecConc == Init /\ [][NextConc]_vars

\* -------------------------------------------------------------- the chunker

\* Longest text given to the chunker on its own
MaxText == 6

\* Letters, whitespace and a sentence end
ChunkAlphabet == {"a", "b", " ", "."}

\* (chunk_size, overlap) pairs scaled down from the defaults (512, 50); with a
\* chunk_size of 5 a sentence end can move the cut
ChunkParams == {<<chunk_size, overlap>>, <<5, 1>>, <<5, 2>>}

InitChunk ==
    /\ index = NoIndex
    /\ document_store = <<>>
    /\ disk_index = MissingFile
    /\ disk_store = MissingFile
    /\ tasks = <<>>
    /\ lifecycle = Ready
    /\ io_faults = 0
    /\ deleted = {}
    /\ \E text \in SeqsUpTo(ChunkAlphabet, MaxText), params \in ChunkParams :
          last = [NoOp EXCEPT !.op = "chunk_input", !.text = text,
                              !.size = params[1], !.ovl = params[2]]

\* A call of FAISSIndexer._chunk_text
ChunkText ==
    /\ last.op = "chunk_input"
    /\ last' = [last EXCEPT !.op = "chunk",
                            !.chunks = _chunk_text(last.text, last.size, last.ovl)]
    /\ UNCHANGED <<index, document_store, disk_index, disk_store, tasks, lifecycle,
                   io_faults, deleted>>

\* The chunker on its own, over texts, chunk sizes and overlaps
SpecChunk == InitChunk /\ [][ChunkText]_vars

\* ------------------------------------------------- concurrent first use

\* Callers of one process that may be between get_indexer() and the end of their call
MaxCallers == 3

\* The batches the callers add
CallerBatches == {<<DocShort>>, <<DocLong>>}

\* A process that has not called get_indexer() yet, over an empty directory
InitStartup ==
    /\ index = NoIndex
    /\ document_store = <<>>
    /\ disk_index = MissingFile
    /\ disk_store = MissingFile
    /\ tasks = <<>>
    /\ lifecycle = NotCreated
    /\ io_faults = 0
    /\ deleted = {}
    /\ last = NoOp

\* One caller: `indexer = await get_indexer()` followed by
\* `await indexer.add_documents(docs)`.  pc names the await it is suspended at:
\* "load_model" (SentenceTransformer in the executor), "test_embed"
\* (_embed_text("test")), "read_index" (faiss.read_index handed to the executor, not
\* yet run), "loaded" (the file has been read, the coroutine has not resumed), "op"
\* (initialize has returned, add_documents has stored nothing yet), "done".
\* ran_init is history: this caller entered the body of initialize.
Caller(documents, pc, ran_init) ==
    [pc |-> pc, docs |-> documents, index_read |-> <<>>, ran_init |-> ran_init,
     ret |-> -1]

\* get_indexer() and what follows without an await in between: the first caller
\* creates the indexer and enters initialize(); a later caller gets the same object
\* and its add_documents calls _ensure_initialized(), which enters initialize() as
\* long as _initialized is False
GetIndexer ==
    \E documents \in CallerBatches :
        /\ Len(tasks) < MaxCallers
        /\ IF ~lifecycle.created
           THEN /\ lifecycle' = [created |-> TRUE, initialized |-> FALSE]
                /\ index' = NoIndex
                /\ document_store' = <<>>
                /\ tasks' = Append(tasks, Caller(documents, "load_model", TRUE))
           ELSE /\ tasks' = Append(tasks,
                                   IF lifecycle.initialized
                                   THEN Caller(documents, "op", FALSE)
                                   ELSE Caller(documents, "load_model", TRUE))
                /\ UNCHANGED <<lifecycle, index, document_store>>
        /\ UNCHANGED <<disk_index, disk_store, io_faults, deleted, last>>

\* The executor has built the SentenceTransformer; _embed_text("test") is awaited
ModelLoaded(t) ==
    /\ tasks[t].pc = "load_model"
    /\ tasks' = [tasks EXCEPT ![t].pc = "test_embed"]
    /\ UNCHANGED <<index, document_store, disk_index, disk_store, last>>
    /\ OtherState

\* The test embedding has returned and _load_index runs to its await: without both
\* files it resets index and store and initialize returns; with both it hands
\* faiss.read_index to the executor
LoadStarted(t) ==
    /\ tasks[t].pc = "test_embed"
    /\ IF disk_index.state = "missing" \/ disk_store.state = "missing"
       THEN /\ index' = NoIndex
            /\ document_store' = <<>>
            /\ lifecycle' = [lifecycle EXCEPT !.initialized = TRUE]
            /\ tasks' = [tasks EXCEPT ![t].pc = "op"]
            /\ last' = [NoOp EXCEPT !.op = "load"]
       ELSE /\ tasks' = [tasks EXCEPT ![t].pc = "read_index"]
            /\ UNCHANGED <<index, document_store, lifecycle, last>>
    /\ UNCHANGED <<disk_index, disk_store, io_faults, deleted>>

\* The executor thread runs faiss.read_index on the file as it is now
ExecutorRead(t) ==
    /\ tasks[t].pc = "read_index"
    /\ tasks' = [tasks EXCEPT ![t].pc = "loaded", ![t].index_read = disk_index.data]
    /\ UNCHANGED <<index, document_store, disk_index, disk_store, last>>
    /\ OtherState

\* The coroutine resumes: self.index is what the executor read, self.document_store
\* is unpickled from the file as it is now, and _initialized becomes True
LoadResumed(t) ==
    /\ tasks[t].pc = "loaded"
    /\ index' = [exists |-> TRUE, rows |-> tasks[t].index_read]
    /\ document_store' = disk_store.data
    /\ lifecycle' = [lifecycle EXCEPT !.initialized = TRUE]
    /\ tasks' = [tasks EXCEPT ![t].pc = "op"]
    /\ last' = [NoOp EXCEPT !.op = "load", !.index_read = "ok", !.store_read = "ok"]
    /\ UNCHANGED <<disk_index, disk_store, io_faults, deleted>>

\* The caller's add_documents, with no other coroutine resumed during it
CallerAdd(t) ==
    /\ tasks[t].pc = "op"
    /\ ntotal(index) + Len(Prepared[tasks[t].docs]) <= MaxVectors
    /\ add_documents(tasks[t].docs, EnvOk)
    /\ tasks' = [tasks EXCEPT ![t].pc = "done", ![t].ret = last'.ret]
    /\ UNCHANGED <<lifecycle, io_faults>>

NextInit ==
    \/ GetIndexer
    \/ \E t \in DOMAIN tasks :
          \/ ModelLoaded(t)
          \/ LoadStarted(t)
          \/ ExecutorRead(t)
          \/ LoadResumed(t)
          \/ CallerAdd(t)

\* Callers arriving while the shared indexer is being created and initialized
SpecInit == InitStartup /\ [][NextInit]_vars

\* ------------------------------------------------------------------ claims

\* The positional invariant: every Chunk Store entry at a key p below the index size
\* is the chunk whose embedding was appended as row p.
Aligned(idx, store) ==
    \A p \in StoreKeys(store) :
        p < ntotal(idx) =>
            /\ StoreMeta(store, p) = idx.rows[p + 1].of
            /\ idx.rows[p + 1].vec = Embed(StoreMeta(store, p).content)

\* The step an add_documents call that stored chunks has just taken
AddedStep == last'.op = "add" /\ ~last'.raised /\ last'.ret > 0
\* The step a delete_documents call has just taken
DeletedStep == last'.op = "delete"

\* Chunk i (0-based) of the batch sits at key and row `start + i`
RegisteredAt(idx, store, start, metas) ==
    \A i \in 0..(Len(metas) - 1) :
        /\ StoreHas(store, start + i)
        /\ StoreMeta(store, start + i) = metas[i + 1]
        /\ start + i < ntotal(idx)
        /\ idx.rows[start + i + 1].of = metas[i + 1]

\* C1: sequential add_documents and delete_documents calls keep the positional
\* invariant (an entry at a key p below the index size is the chunk whose embedding
\* was appended as row p): it holds on the fresh indexer, no call breaks it, and an
\* add_documents call registers chunk i of its batch at key (index size before the
\* append) + i, the row that holds its embedding.
C1_PositionalInvariant ==
    /\ Aligned(index, document_store)
    /\ [][/\ (AddedStep \/ DeletedStep) /\ Aligned(index, document_store)
              => Aligned(index', document_store')
          /\ AddedStep => RegisteredAt(index', document_store', ntotal(index),
                                       PrepareChunks(last'.docs))]_vars

\* An add_documents call appended a two-chunk batch behind an existing row
C1_Witness ==
    /\ last.op = "add" /\ last.ret = 2 /\ ntotal(index) = 3
    /\ StoreKeys(document_store) = {0, 1, 2}

LiveIds(store) == {store[i].meta.document_id : i \in 1..Len(store)}

\* C3: delete_documents(ids) removes every Chunk Store entry whose document_id is in
\* ids and no other entry, returns the number of entries removed and leaves the
\* Vector Index as it was: total_vectors is unchanged and no id of ids is counted in
\* active_documents any more.
C3_DeleteFrame ==
    [][DeletedStep =>
        /\ StoreKeys(document_store') =
              {p \in StoreKeys(document_store) :
                  StoreMeta(document_store, p).document_id \notin last'.ids}
        /\ \A p \in StoreKeys(document_store') :
              StoreMeta(document_store', p) = StoreMeta(document_store, p)
        /\ last'.ret = Cardinality(StoreKeys(document_store) \ StoreKeys(document_store'))
        /\ ~last'.raised
        /\ index' = index
        /\ get_index_stats(index', document_store').total_vectors
              = get_index_stats(index, document_store).total_vectors
        /\ LiveIds(document_store') \cap last'.ids = {}
        /\ get_index_stats(index', document_store').active_documents
              = Cardinality(LiveIds(document_store) \ last'.ids)]_vars

\* A delete_documents call removed the chunks of one document and kept another's
C3_Witness ==
    /\ last.op = "delete" /\ last.ret = 2
    /\ Len(document_store) = 1 /\ ntotal(index) = 3

IsReadOp(op) == op \in {"search", "keyword", "retrieve"}

RowsAbove(idx, q, p) ==
    Cardinality({r \in 0..(ntotal(idx) - 1) : RowScore(idx, q, r) > RowScore(idx, q, p)})

\* C5: a search on a non-empty index that returns gives at most k results, in
\* non-increasing score order, each from one of the min(2k, index size) rows of
\* highest inner product with the normalized query, each being the live Chunk Store
\* entry of its row with that row's score, and each satisfying the filter set.
C5_SearchResults ==
    (last.op = "search" /\ ~last.raised /\ index.exists /\ ntotal(index) > 0) =>
        LET q == normalize_L2(Embed(last.query))
            res == last.results
        IN  /\ Len(res) <= last.k
            /\ \A i \in 1..Len(res) : \A j \in i..Len(res) : res[i].score >= res[j].score
            /\ \A i \in 1..Len(res) :
                  /\ res[i].row \in 0..(ntotal(index) - 1)
                  /\ RowsAbove(index, q, res[i].row) < Min(2 * last.k, ntotal(index))
                  /\ res[i].score = RowScore(index, q, res[i].row)
                  /\ StoreHas(document_store, res[i].row)
                  /\ res[i] = Result(StoreMeta(document_store, res[i].row),
                                     res[i].score, res[i].row)
                  /\ DOMAIN last.filters # {} =>
                        _match_filters(StoreMeta(document_store, res[i].row), last.filters)

\* A filtered search whose 2k nearest rows are fewer than the index holds and that
\* filled its cap
C5_Witness ==
    /\ last.op = "search" /\ ~last.raised /\ last.k = 1
    /\ DOMAIN last.filters # {}
    /\ ntotal(index) > 2 * last.k
    /\ Len(document_store) < ntotal(index)
    /\ Len(last.results) = 1

\* The chunks the valid documents of a batch produce
RECURSIVE ValidChunkCount(_)
ValidChunkCount(documents) ==
    IF documents = <<>> THEN 0
    ELSE (IF /\ "document_id" \in DOMAIN Head(documents)
             /\ Head(documents).document_id # ""
             /\ "content" \in DOMAIN Head(documents)
             /\ Head(documents).content # <<>>
          THEN Len(_chunk_text(Head(documents).content, chunk_size, overlap))
          ELSE 0)
         + ValidChunkCount(Tail(documents))

\* C6: an add_documents call whose embedding call does not fault skips the documents
\* with an empty or missing document_id or content without raising, returns the
\* number of chunks of the valid documents (0 leaves index and store unchanged), and
\* total_vectors and total_chunks grow by exactly the returned count.
C6_AddCounts ==
    [][(last'.op = "add" /\ last'.embed # "fault") =>
        /\ ~last'.raised
        /\ last'.ret = ValidChunkCount(last'.docs)
        /\ last'.ret = 0 => index' = index /\ document_store' = document_store
        /\ get_index_stats(index', document_store').total_vectors
              = get_index_stats(index, document_store).total_vectors + last'.ret
        /\ get_index_stats(index', document_store').total_chunks
              = get_index_stats(index, document_store).total_chunks + last'.ret]_vars

\* A fresh indexer has just loaded the snapshots, both reads succeeding
ReloadedStep ==
    last'.op = "load" /\ last'.index_read = "ok" /\ last'.store_read = "ok"

\* The call before the restart completed and no snapshot write it made failed
CommittedCall ==
    /\ last.op \in {"add", "delete"} /\ ~last.raised
    /\ last.index_write # "fail" /\ last.store_write = "ok"

C8_LoadAllOrNothing ==
    [][last'.op = "load" =>
        /\ ~last'.raised
        /\ (\/ disk_index.state = "missing" \/ disk_store.state = "missing"
            \/ last'.index_read = "fail" \/ last'.store_read = "fail")
              => index' = NoIndex /\ document_store' = <<>>
        /\ \/ index' = NoIndex /\ document_store' = <<>>
           \/ /\ index' = [exists |-> TRUE, rows |-> disk_index.data]
              /\ document_store' = disk_store.data]_vars

\* The store snapshot could not be read beside a readable index snapshot with rows:
\* the indexer started empty
C8_Witness ==
    /\ last.op = "load" /\ last.index_read = "ok" /\ last.store_read = "fail"
    /\ disk_index.state = "ok" /\ disk_index.data # <<>>
    /\ disk_store.state = "ok" /\ disk_store.data # <<>>
    /\ index = NoIndex /\ document_store = <<>>

\* C9: a snapshot write that fails does not fail the call that triggered it:
\* add_documents returns the chunk count with its rows appended and its chunks
\* registered in memory, delete_documents returns the removed count with the entries
\* gone from memory.
C9_WriteFailureTolerated ==
    [][(last'.index_write = "fail" \/ last'.store_write = "fail") =>
        /\ ~last'.raised
        /\ last'.op = "add" =>
              /\ last'.ret = ValidChunkCount(last'.docs) /\ last'.ret > 0
              /\ ntotal(index') = ntotal(index) + last'.ret
              /\ RegisteredAt(index', document_store', ntotal(index),
                              PrepareChunks(last'.docs))
        /\ last'.op = "delete" =>
              /\ last'.ret > 0
              /\ last'.ret = Cardinality({p \in StoreKeys(document_store) :
                      StoreMeta(document_store, p).document_id \in last'.ids})
              /\ LiveIds(document_store') \cap last'.ids = {}
              /\ index' = index
        /\ last'.op \in {"add", "delete"}]_vars

\* A delete_documents call whose store write failed returned its count, the entries
\* gone from memory and still in the snapshot
C9_Witness ==
    /\ last.op = "delete" /\ last.store_write = "fail" /\ last.ret = 2
    /\ document_store = <<>> /\ disk_store.data # <<>>

\* C10: an embedding fault in add_documents, or in search on a non-empty index, is
\* raised to the caller: the call returns no count and no results.
C10_EmbeddingFaultRaised ==
    (last.op \in {"add", "search"} /\ last.embed = "fault") =>
        /\ last.raised
        /\ last.ret = NoOp.ret
        /\ last.results = <<>>

\* A search on a non-empty index whose embedding call faulted
C10_Witness ==
    /\ last.op = "search" /\ last.embed = "fault" /\ last.raised
    /\ index.exists /\ ntotal(index) > 0 /\ document_store # <<>>

\* C11: an embedding fault during the retrieval step of query (semantic or hybrid
\* mode) reaches the caller of query as an exception; it is not turned into an empty
\* result set and a not_found Answer.
C11_QueryFaultSurfaced ==
    (last.op = "query" /\ last.embed = "fault") =>
        /\ last.raised
        /\ last.answer.answer_type # "not_found"

\* C12: with an LLM collaborator configured, context requested and a non-empty result
\* list, a failing LLM call makes query return an Answer of type error with
\* confidence 0.0, and no exception reaches the caller.
C12_LlmFailureIsError ==
    (/\ last.op = "query" /\ last.answer_generator /\ last.include_context
     /\ last.results # <<>> /\ last.llm = "fail") =>
        /\ ~last.raised
        /\ last.answer.answer_type = "error"
        /\ last.answer.confidence = 0

\* The retrieval asked for the chunks of project P1 only
ProjectP1Only ==
    \/ last.op \in {"search", "keyword"} /\ last.filters = [project_ids |-> {"P1"}]
    \/ last.op = "retrieve" /\ last.filters = [project_id |-> [scalar |-> "P1"]]

\* C13: with chunks of projects P1 and P2 in the corpus, a retrieval filtered on
\* project_ids = [P1] returns chunks of P1 only, never one of P2, in semantic,
\* keyword and hybrid mode alike.
C13_ProjectIsolation ==
    (IsReadOp(last.op) /\ ProjectP1Only) =>
        \A i \in 1..Len(last.results) :
            /\ Get(last.results[i].metadata, "project_id", None) # "P2"
            /\ Get(last.results[i].metadata, "project_id", None) = "P1"

\* A hybrid retrieval filtered on P1 returned a chunk while a chunk of P2 that
\* matches the query was live
C13_Witness ==
    /\ last.op = "retrieve" /\ last.mode = "hybrid" /\ ProjectP1Only
    /\ last.results # <<>>
    /\ \E i \in 1..Len(document_store) :
          /\ Get(document_store[i].meta.metadata, "project_id", None) = "P2"
          /\ KeywordScore(last.query, document_store[i].meta.content) > 0

\* The metadata field a list filter looks at
ListField(filter_key) ==
    CASE filter_key = "project_ids" -> "project_id"
      [] filter_key = "contractors" -> "contractor"
      [] filter_key = "statuses"    -> "status"
      [] filter_key = "categories"  -> "category"

\* What the specification of the evaluator asks of a chunk under a filter dict
Matches(chunk, F) ==
    /\ \A filter_key \in {"project_ids", "contractors", "statuses", "categories"}
                            \cap DOMAIN F :
          /\ ListField(filter_key) \in DOMAIN chunk.metadata
          /\ chunk.metadata[ListField(filter_key)] \in F[filter_key]
    /\ "document_types" \in DOMAIN F =>
          chunk.document_type # None /\ chunk.document_type \in F.document_types
    /\ "confidence_min" \in DOMAIN F =>
          (IF "confidence" \in DOMAIN chunk.metadata THEN chunk.metadata.confidence
           ELSE ScoreScale) >= F.confidence_min
    /\ "date_range" \in DOMAIN F =>
          \/ chunk.timestamp = 0
          \/ /\ "start" \in DOMAIN F.date_range => chunk.timestamp >= F.date_range.start
             /\ "end" \in DOMAIN F.date_range => chunk.timestamp <= F.date_range.end

C15_Fusion ==
    last.op = "merge" =>
        LET S == last.semantic_results
            K == last.keyword_results
            M == last.results
        IN  /\ \A i, j \in 1..Len(M) : i # j => M[i].chunk_id # M[j].chunk_id
            /\ Len(M) = Min(last.k, Cardinality(ChunkIds(S) \cup ChunkIds(K)))
            /\ \A i \in 1..Len(M) :
                  IF M[i].chunk_id \in ChunkIds(S)
                  THEN \E j \in 1..Len(S) :
                          /\ S[j].chunk_id = M[i].chunk_id
                          /\ M[i].score = S[j].score
                  ELSE \E j \in 1..Len(K) :
                          /\ K[j].chunk_id = M[i].chunk_id
                          /\ 5 * M[i].score = 4 * K[j].score + ScoreScale
            /\ \A i \in 1..Len(M) : \A j \in i..Len(M) : M[i].score >= M[j].score

\* A fusion in which one keyword hit was already a semantic hit and another was not
C15_Witness ==
    /\ last.op = "merge" /\ Len(last.results) = 2
    /\ \E j \in 1..Len(last.keyword_results) :
          last.keyword_results[j].chunk_id \in ChunkIds(last.semantic_results)
    /\ \E j \in 1..Len(last.keyword_results) :
          /\ last.keyword_results[j].chunk_id \notin ChunkIds(last.semantic_results)
          /\ last.keyword_results[j].chunk_id \in ChunkIds(last.results)

\* The fused list of a hybrid query, before the threshold
FusedOfLast ==
    LET half == last.k \div 2
        filters == _convert_filters(last.filters)
    IN  _merge_results(search(index, document_store, last.query, half, filters,
                              "ok", "empty").results,
                       _keyword_search(document_store, last.query, half, filters),
                       last.k)

\* C16: in every search mode the results a query retains -- the ones given to answer
\* synthesis and counted in search_results_count -- all score at least the
\* confidence_threshold; in hybrid mode they are the fused hits whose fused score
\* reaches the threshold.
C16_ThresholdApplied ==
    last.op = "query" =>
        /\ \A i \in 1..Len(last.results) : last.results[i].score >= last.threshold
        /\ last.search_results_count = Len(last.results)
        /\ \A i \in 1..Len(last.answer.sources) :
              last.answer.sources[i].relevance_score >= last.threshold
        /\ (last.mode = "hybrid" /\ last.embed = "ok" /\ last.k > 1) =>
              /\ \A i \in 1..Len(FusedOfLast) :
                    FusedOfLast[i].score >= last.threshold
                       => \E j \in 1..Len(last.results) : last.results[j] = FusedOfLast[i]
              /\ \A j \in 1..Len(last.results) :
                    \E i \in 1..Len(FusedOfLast) : last.results[j] = FusedOfLast[i]

\* A hybrid query with a threshold kept a keyword hit whose fused score reaches the
\* threshold while its keyword score is below it
C16_Witness ==
    /\ last.op = "query" /\ last.mode = "hybrid" /\ last.threshold > 0
    /\ last.embed = "ok" /\ last.k > 1
    /\ \E i \in 1..Len(last.results) :
          LET raw == KeywordScore(last.query, last.results[i].content)
          IN  /\ raw > 0 /\ raw < last.threshold
              /\ 5 * last.results[i].score = 4 * raw + ScoreScale
              /\ last.results[i].score >= last.threshold

\* C17: when no result is retained -- as for every query against an empty index --
\* query returns a not_found Answer with confidence 0.0, no sources, between one and
\* three related-query suggestions, and search_results_count 0.
C17_NotFound ==
    last.op = "query" =>
        /\ (~index.exists \/ ntotal(index) = 0) => last.results = <<>>
        /\ last.results = <<>> =>
              /\ ~last.raised
              /\ last.answer.answer_type = "not_found"
              /\ last.answer.confidence = 0
              /\ last.answer.sources = <<>>
              /\ Len(last.answer.related_queries) \in 1..3
              /\ last.search_results_count = 0

\* A query against a populated index retained nothing and got the two suggestions
\* of a pattern
C17_Witness ==
    /\ last.op = "query" /\ last.results = <<>> /\ last.embed = "ok"
    /\ document_store # <<>>
    /\ last.answer.answer_type = "not_found"
    /\ Len(last.answer.related_queries) = 2

\* C18: with results retained and no LLM collaborator configured or no context
\* requested, query returns a direct Answer: the first 500 characters of the
\* top-ranked chunk, with that chunk's retrieval score as confidence, whatever score
\* the retrieval produced.
C18_DirectAnswer ==
    (/\ last.op = "query" /\ last.results # <<>>
     /\ (~last.answer_generator \/ ~last.include_context)) =>
        /\ last.answer.answer_type = "direct"
        /\ last.answer.answer = Prefix(last.results[1].content, answer_chars)
        /\ last.answer.confidence = last.results[1].score

\* C19: an Answer that is not of type error carries one Source Reference per retained
\* result, in the same order, for the same chunk and with the result's score as
\* relevance_score, so that len(sources) = search_results_count.
C19_SourcesMatchResults ==
    (last.op = "query" /\ last.answer.answer_type # "error") =>
        /\ Len(last.answer.sources) = Len(last.results)
        /\ Len(last.answer.sources) = last.search_results_count
        /\ \A i \in 1..Len(last.results) :
              /\ last.answer.sources[i].document_id = last.results[i].document_id
              /\ last.answer.sources[i].deep_link[2] = last.results[i].chunk_id
              /\ last.answer.sources[i].relevance_score = last.results[i].score

\* A synthesized Answer over two results from different documents
C19_Witness ==
    /\ last.op = "query" /\ last.answer.answer_type = "synthesized"
    /\ Len(last.results) = 2
    /\ last.results[1].document_id # last.results[2].document_id

\* C20: search on an index without vectors -- never populated, or reset by a failed
\* load -- returns the empty list, raises nothing and does not call the embedding
\* provider.
C20_EmptyIndexSearch ==
    (last.op = "search" /\ get_index_stats(index, document_store).total_vectors = 0) =>
        /\ ~last.raised
        /\ last.results = <<>>
        /\ last.embed = "not_called"

\* A search after a load that failed on snapshots holding vectors
C20_Witness ==
    /\ last.op = "search" /\ index = NoIndex
    /\ disk_index.state = "ok" /\ disk_index.data # <<>>
    /\ disk_store.state = "ok" /\ disk_store.data # <<>>
    /\ last.results = <<>> /\ ~last.raised

\* The step a call of the read path has just taken
ReadStep == last'.op \in {"search", "search_again", "keyword", "query"}

InitRuns == Cardinality({t \in DOMAIN tasks : tasks[t].ran_init})

\* The step in which a caller's _load_index assigns index and Chunk Store
LoadStep ==
    \E t \in DOMAIN tasks :
        tasks[t].pc \in {"test_embed", "loaded"} /\ tasks'[t].pc = "op"

\* Some add_documents call of this process has stored its chunks
Applied == \E t \in DOMAIN tasks : tasks[t].pc = "done" /\ tasks[t].ret > 0

Suffix(text, n) == SubSeq(text, Max(1, Len(text) - n + 1), Len(text))

\* The end of `earlier` and the start of `later` are the same text of 1..ovl characters
SharedOverlap(earlier, later, ovl) ==
    \E n \in 1..Min(ovl, Min(Len(earlier), Len(later))) :
        Suffix(earlier, n) = Prefix(later, n)

\* C23: for every text longer than chunk_size the chunker returns at least two
\* chunks, none of them empty, and each chunk ends with the 1..overlap characters the
\* next chunk starts with.
C23_ChunkOverlap ==
    (last.op = "chunk" /\ Len(last.text) > last.size) =>
        /\ Len(last.chunks) >= 2
        /\ \A i \in 1..Len(last.chunks) : last.chunks[i] # <<>>
        /\ \A i \in 1..(Len(last.chunks) - 1) :
              SharedOverlap(last.chunks[i], last.chunks[i + 1], last.ovl)

\* C24: normalization is one policy for the whole index: the vector add_documents
\* appends for a text is normalized the way search normalizes its query vector, so
\* every row is the vector search would use for the same text.
C24_NormalizationPolicy ==
    \A p \in 0..(ntotal(index) - 1) :
        index.rows[p + 1].vec = normalize_L2(Embed(index.rows[p + 1].of.content))

\* The live Chunk Store keys whose entry passes the filters of the last call
Candidates ==
    {p \in StoreKeys(document_store) :
        DOMAIN last.filters = {} \/ _match_filters(StoreMeta(document_store, p), last.filters)}

\* score is |query words /\ chunk words| / |query words| for the entry at key p, and
\* 0 for a query without words
OverlapRatio(p, score) ==
    LET Q == Words(Lower(last.query))
        W == Words(Lower(StoreMeta(document_store, p).content))
    IN  IF Q = {} THEN score = 0
        ELSE Cardinality(Q) * score = ScoreScale * Cardinality(Q \cap W)

\* The results of the last call are the entries at the keys `among`: each with its
\* overlap ratio as score, in non-increasing score order, cut at k, and no entry
\* left out scores higher than one returned
RankedOverlap(among) ==
    LET res == last.results
    IN  /\ Len(res) = Min(last.k, Cardinality(among))
        /\ \A i \in 1..Len(res) :
              /\ res[i].row \in among
              /\ OverlapRatio(res[i].row, res[i].score)
              /\ res[i] = Result(StoreMeta(document_store, res[i].row),
                                 res[i].score, res[i].row)
        /\ \A i, j \in 1..Len(res) : i < j =>
              res[i].score >= res[j].score /\ res[i].row # res[j].row
        /\ \A p \in among \ {res[i].row : i \in 1..Len(res)} :
              \A i \in 1..Len(res) : \E score \in 0..res[i].score : OverlapRatio(p, score)

C26_KeysBelowIndexSize ==
    /\ \A p \in StoreKeys(document_store) : p < ntotal(index)
    /\ get_index_stats(index, document_store).total_chunks
          <= get_index_stats(index, document_store).total_vectors

\* C27: Index Positions are never reused within a process: over sequential
\* add_documents and delete_documents calls the Vector Index never shrinks and its
\* rows stay what they were, a row without a Chunk Store entry never gets one again,
\* and every key an add_documents assigns is above every row of the index and every
\* key the Chunk Store holds.
C27_PositionsNeverReused ==
    [][(AddedStep \/ DeletedStep) =>
        /\ ntotal(index') >= ntotal(index)
        /\ \A p \in 0..(ntotal(index) - 1) :
              /\ index'.rows[p + 1] = index.rows[p + 1]
              /\ StoreHas(document_store', p) =>
                    /\ StoreHas(document_store, p)
                    /\ StoreMeta(document_store', p) = StoreMeta(document_store, p)
        /\ AddedStep =>
              \A p \in ntotal(index)..(ntotal(index') - 1) :
                  /\ StoreHas(document_store', p)
                  /\ \A q \in 0..(ntotal(index) - 1) \cup StoreKeys(document_store) : p > q]_vars

\* C28: add_documents is all-or-nothing under an embedding fault: when the embedding
\* call of the batch fails the call raises and the Vector Index size, the Chunk
\* Store and both snapshots are what they were before the call, whatever valid
\* documents the batch held.
C28_AddAllOrNothing ==
    [][(last'.op = "add" /\ last'.embed = "fault") =>
        /\ last'.raised
        /\ last'.ret = NoOp.ret
        /\ ntotal(index') = ntotal(index)
        /\ get_index_stats(index', document_store').total_vectors
              = get_index_stats(index, document_store).total_vectors
        /\ document_store' = document_store
        /\ disk_index' = disk_index
        /\ disk_store' = disk_store]_vars

\* The embedding call faulted on a batch of two valid documents offered to an
\* indexer that held a chunk and its snapshots
C28_Witness ==
    /\ last.op = "add" /\ last.embed = "fault" /\ last.raised
    /\ Len(last.docs) = 2 /\ DocValid(last.docs[1]) /\ DocValid(last.docs[2])
    /\ ntotal(index) = 1 /\ Len(document_store) = 1
    /\ disk_index.state = "ok" /\ disk_store.state = "ok"

\* C29: in hybrid mode the semantic and the keyword retrieval are each capped at
\* floor(max_results / 2): a query retains at most 2 * floor(max_results / 2)
\* results, all of them among the first floor(max_results / 2) semantic and keyword
\* hits, and with max_results = 1 it retains none and answers not_found without
\* raising, whatever the corpus holds.
C29_HybridCaps ==
    (last.op = "query" /\ last.mode = "hybrid") =>
        LET half == last.k \div 2
            filters == _convert_filters(last.filters)
            keyword == _keyword_search(document_store, last.query, half, filters)
            semantic == search(index, document_store, last.query, half, filters,
                               "ok", "empty").results
        IN  /\ Len(last.results) <= 2 * half
            /\ Len(keyword) <= half /\ Len(semantic) <= half
            /\ \A i \in 1..Len(last.results) :
                  last.results[i].chunk_id \in ChunkIds(keyword) \cup ChunkIds(semantic)
            /\ last.k = 1 =>
                  /\ last.results = <<>>
                  /\ ~last.raised
                  /\ last.answer.answer_type = "not_found"
                  /\ last.search_results_count = 0

\* A hybrid query with max_results = 3 and no threshold retained two results where a
\* semantic search with k = 3 finds three
C29_Witness ==
    /\ last.op = "query" /\ last.mode = "hybrid" /\ last.k = 3
    /\ last.embed = "ok" /\ last.threshold = 0 /\ last.filters = NoFilters
    /\ Len(last.results) = 2
    /\ Len(search(index, document_store, last.query, 3, NoFilters, "ok", "empty").results) = 3

\* ------------------------------------- searches beside one add_documents

\* Some search call has not returned yet
SearchInFlight == \E t \in DOMAIN tasks : tasks[t].pc \in {"s_embed", "s_exec", "s_resume"}

\* One search coroutine between two awaits: "s_embed" (_embed_text), "s_exec"
\* (index.search handed to the executor, not yet run), "s_resume" (index.search has
\* run on the index `seen`, the coroutine has not resumed)
SearchTask(query, k) ==
    [pc |-> "s_embed", query |-> query, k |-> k, search_k |-> 0, seen |-> NoIndex,
     indices |-> <<>>]

\* The process while no call is in flight: calls that run to completion, and restarts
Sequential ==
    /\ tasks = <<>>
    /\ \/ AddDocumentsIn({EnvOk, [embed |-> "ok", index_write |-> "fail", store_write |-> "ok"]})
       \/ DeleteDocumentsIn({"ok"})
       \/ RestartProcess

\* The one add_documents call that searches run beside
StartSingleAdd ==
    \E documents \in CallerBatches :
        /\ tasks = <<>>
        /\ ntotal(index) + Len(Prepared[documents]) <= MaxVectors
        /\ tasks' = <<Task(documents)>>
        /\ UNCHANGED <<index, document_store, disk_index, disk_store, last>>
        /\ OtherState

\* search up to `await self._embed_text(query)`: an empty index returns [] at once
StartSearch ==
    \E query \in Queries, k \in 1..MaxK :
        /\ tasks # <<>> /\ ~SearchInFlight
        /\ IF ~index.exists \/ ntotal(index) = 0
           THEN /\ last' = [NoOp EXCEPT !.op = "search", !.query = query, !.k = k]
                /\ UNCHANGED tasks
           ELSE /\ tasks' = Append(tasks, SearchTask(query, k))
                /\ UNCHANGED last
        /\ UNCHANGED <<index, document_store, disk_index, disk_store>>
        /\ OtherState

\* The query embedding returns: on a fault the call raises; else search_k is read
\* from the index as it is now and index.search is handed to the executor
\* (faiss_indexer.py:192-205)
SearchEmbedded(t) ==
    \E embed \in {"ok", "fault"} :
        /\ tasks[t].pc = "s_embed"
        /\ IF EmbeddingRaises(embed)
           THEN /\ tasks' = SelectSeq(tasks, LAMBDA task : task.pc # "s_embed")
                /\ last' = [NoOp EXCEPT !.op = "search", !.query = tasks[t].query,
                                        !.k = tasks[t].k, !.embed = embed,
                                        !.raised = TRUE]
           ELSE /\ tasks' = [tasks EXCEPT
                                ![t].pc = "s_exec",
                                ![t].search_k = Min(tasks[t].k * 2, ntotal(index))]
                /\ UNCHANGED last
        /\ UNCHANGED <<index, document_store, disk_index, disk_store>>
        /\ OtherState

\* The executor thread runs self.index.search(query_embedding, search_k)
ExecutorSearch(t) ==
    /\ tasks[t].pc = "s_exec"
    /\ tasks' = [tasks EXCEPT
                    ![t].pc = "s_resume", ![t].seen = index,
                    ![t].indices = Nearest(index, normalize_L2(Embed(tasks[t].query)),
                                           tasks[t].search_k)]
    /\ UNCHANGED <<index, document_store, disk_index, disk_store, last>>
    /\ OtherState

\* The coroutine resumes: the result loop reads the store as it is now, and the
\* call returns
SearchResumed(t) ==
    /\ tasks[t].pc = "s_resume"
    /\ last' = [NoOp EXCEPT
                   !.op = "search", !.query = tasks[t].query, !.k = tasks[t].k,
                   !.embed = "ok",
                   !.results = ProcessRows(tasks[t].seen, document_store,
                                           normalize_L2(Embed(tasks[t].query)),
                                           tasks[t].indices, tasks[t].k, NoFilters, <<>>)]
    /\ tasks' = SelectSeq(tasks, LAMBDA task : task.pc # "s_resume")
    /\ UNCHANGED <<index, document_store, disk_index, disk_store>>
    /\ OtherState

NextLive ==
    \/ Sequential
    \/ StartSingleAdd
    \/ StartSearch
    \/ \E t \in DOMAIN tasks :
          \/ EmbedDone(t)
          \/ ExecutorAdd(t)
          \/ Register(t)
          \/ WriteIndex(t)
          \/ WriteStoreAndReturn(t)
          \/ SearchEmbedded(t)
          \/ ExecutorSearch(t)
          \/ SearchResumed(t)

\* One process that, after any history of completed calls and restarts, runs one
\* add_documents call with searches interleaving at every await
SpecLive == Init /\ [][NextLive]_vars

\* A search that ran beside the add_documents call has returned
SearchReturned == last.op = "search" /\ tasks # <<>>

\* C30: with a single add_documents call in flight and searches beside it, every
\* result a search returns comes from a position that is registered in the Chunk
\* Store and is the chunk whose embedding the row at that position holds.
C30_SearchSeesRegisteredRows ==
    SearchReturned =>
        \A i \in 1..Len(last.results) :
            LET p == last.results[i].row
            IN  /\ p < ntotal(index)
                /\ StoreHas(document_store, p)
                /\ index.rows[p + 1].of = StoreMeta(document_store, p)
                /\ last.results[i].chunk_id = index.rows[p + 1].of.chunk_id

\* Every add_documents call that was started has returned or raised
Quiescent == tasks # <<>> /\ \A t \in DOMAIN tasks : tasks[t].pc = "done"

\* C2: with add_documents calls interleaving at every await, once all of them have
\* completed every Chunk Store entry at key p describes the chunk whose embedding is
\* row p, and every chunk of every completed batch is still registered at the row
\* that holds its embedding.
C2_QuiescentInvariant ==
    Quiescent =>
        /\ Aligned(index, document_store)
        /\ \A t \in DOMAIN tasks :
              tasks[t].ret > 0 =>
                  \E start \in 0..ntotal(index) :
                      RegisteredAt(index, document_store, start, tasks[t].metas)

====
